---- MODULE Spec2Model ----
(***************************************************************************)
(* Pong With Obstacles (src/src/main.rs): the fixed-tick simulation, the   *)
(* scoring rules and the Playing / GameOver state machine.                 *)
(*                                                                         *)
(* Number representation.  The program computes in f32; the model computes *)
(* exactly, in integers:                                                   *)
(*  - a length or a position is stored in position units, UnitsPerWorld   *)
(*    of them to a world unit, a multiple of FIXED_HZ: "velocity *         *)
(*    delta_secs" (delta_secs = 1/FIXED_HZ) of a velocity v is v *         *)
(*    UnitsPerTick of them, and the paddle step and every bound of the     *)
(*    source is a whole number of them;                                    *)
(*  - a velocity (x, y) is stored as the sign and the square of each       *)
(*    component of a base vector, and the number esc of times the vector   *)
(*    was multiplied by 1.2:  x = sx * sqrt(qx) * 1.2^esc.  Squared        *)
(*    magnitudes, normalisation and the 1.2 scaling are exact in this      *)
(*    form; only the displacement of one tick is rounded (to a position    *)
(*    unit), as the f32 position is rounded by the program.                *)
(***************************************************************************)
EXTENDS Integers, Sequences, FiniteSets

(* ------------------------------ constants ------------------------------ *)
PADDLE_SIZE_X == 20
PADDLE_SIZE_Y == 120
PADDLE_SPEED == 500
BALL_STARTING_X == -610
BALL_STARTING_Y == 0
BALL_SIZE == 20
BALL_SPEED == 400
\* INITIAL_BALL_DIRECTION = (0.5, -0.5), written in halves
INITIAL_BALL_DIRECTION == [x |-> 1, y |-> -1]
WALL_THICKNESS == 1
VERTICAL_WALL_THICKNESS == 20
LEFT_WALL == -640
RIGHT_WALL == 640
BOTTOM_WALL == -470
TOP_WALL == 470
GAP_BETWEEN_PADDLE_AND_SIDES == 10
TARGET_SCORE == 9
\* the margin of the serve spot from the side wall (ball_reset)
SERVE_MARGIN == 40
\* Time<Fixed>: the FixedUpdate schedule runs at 64 Hz, delta_secs() = 1/64
FIXED_HZ == 64

\* position units in the displacement of one tick at 1 world unit per second
UnitsPerTick == 4
\* position units in a world unit
UnitsPerWorld == UnitsPerTick * FIXED_HZ
\* a world length in position units
U(worldLen) == worldLen * UnitsPerWorld
\* half of a world length in position units (UnitsPerWorld is even)
HalfU(worldLen) == worldLen * (UnitsPerWorld \div 2)

(* ------------------------------- bounds -------------------------------- *)
\* how many FixedUpdate runs one frame holds at most
MaxTicksPerFrame == 2

(* ---------------------------- arithmetic ------------------------------- *)
Abs(n) == IF n < 0 THEN -n ELSE n
Sgn(n) == IF n < 0 THEN -1 ELSE IF n > 0 THEN 1 ELSE 0
Min(a, b) == IF a < b THEN a ELSE b
Max(a, b) == IF a > b THEN a ELSE b
\* f32::clamp(lo, hi)
Clamp(v, lo, hi) == Max(lo, Min(v, hi))

RECURSIVE Gcd(_, _)
Gcd(a, b) == IF b = 0 THEN a ELSE Gcd(b, a % b)

RECURSIVE IsqrtIter(_, _, _)
IsqrtIter(n, lo, hi) ==
    IF lo >= hi THEN lo
    ELSE LET mid == (lo + hi + 1) \div 2
         IN  IF mid * mid <= n THEN IsqrtIter(n, mid, hi)
                               ELSE IsqrtIter(n, lo, mid - 1)
\* floor of the square root
Isqrt(n) == IsqrtIter(n, 0, 46340)


(* ------------------------------ velocity ------------------------------- *)
\* Vec2::normalize() * speed of the vector whose components have the signs
\* (sx, sy) and the squares (qx : qy) up to a common factor
NormalizeTimes(sx, qx, sy, qy, speed) ==
    LET g == Gcd(qx, qy)
        a == qx \div g
        b == qy \div g
    IN  [sx |-> sx, qx |-> (speed * speed * a) \div (a + b),
         sy |-> sy, qy |-> (speed * speed * b) \div (a + b),
         esc |-> 0]

\* INITIAL_BALL_DIRECTION.normalize() * BALL_SPEED
InitialVelocity ==
    NormalizeTimes(Sgn(INITIAL_BALL_DIRECTION.x),
                   INITIAL_BALL_DIRECTION.x * INITIAL_BALL_DIRECTION.x,
                   Sgn(INITIAL_BALL_DIRECTION.y),
                   INITIAL_BALL_DIRECTION.y * INITIAL_BALL_DIRECTION.y,
                   BALL_SPEED)

\* the square of the magnitude of the base vector; the magnitude of the
\* velocity is sqrt(BaseSpeed2) * 1.2^esc
BaseSpeed2(v) == v.qx + v.qy

RECURSIVE TimesSixFifths(_, _)
TimesSixFifths(d, n) ==
    IF n = 0 THEN d ELSE TimesSixFifths((d * 12 + 5) \div 10, n - 1)

\* |component| * delta_secs in position units, rounded to nearest: the
\* component is sqrt(q) * 1.2^esc world units per second
Step(q, esc) ==
    (TimesSixFifths(Isqrt(q * 100 * UnitsPerTick * UnitsPerTick), esc) + 5) \div 10

(* ------------------------------- state --------------------------------- *)
VARIABLES
    state,             \* State<GameState>: "Playing" or "GameOver"
    next_state,        \* NextState<GameState>: "Unchanged" or the pending state
    score,             \* Score(usize, usize) as <<player 1, player 2>>
    winner,            \* Winner(Option<PaddleType>): "None", "Left" or "Right"
    ball,              \* the Ball entity: x, y of its Transform, vel its Velocity
    paddles,           \* Transform.translation.y of the paddle of each PaddleType
    victory_text,      \* the text of the VictoryText entity, "None" without one
    keys,              \* ButtonInput<KeyCode>: the paddle keys that are pressed
    k_just_pressed,    \* ButtonInput<KeyCode>: just_pressed(KeyK) in this frame
    collision_events,  \* Events<CollisionEvent>: its two buffers
    score_events,      \* Events<ScoreEvent>: its two buffers
    collision_reader,  \* play_collision_sound's EventReader<CollisionEvent>: unread events
    reset_reader,      \* ball_reset's EventReader<ScoreEvent>: unread events
    should_update,     \* a FixedUpdate ran since the event buffers were last rotated
    phase,             \* the schedule of the frame that runs next
    fixed_runs,        \* FixedUpdate runs of the running frame so far
    contacts,          \* paddle contacts since the last serve or match start
    tick,              \* what the latest run of the simulation systems did
    probe              \* one collider and ball put to the loop body, and the outcome

vars == <<state, next_state, score, winner, ball, paddles, victory_text, keys,
          k_just_pressed, collision_events, score_events, collision_reader,
          reset_reader, should_update, phase, fixed_runs, contacts, tick, probe>>

PaddleTypes == {"Left", "Right"}

(* ------------------------------ colliders ------------------------------ *)
\* WallLocation::position
WallPosition(location) ==
    CASE location = "Left"   -> [x |-> U(LEFT_WALL), y |-> 0]
      [] location = "Right"  -> [x |-> U(RIGHT_WALL), y |-> 0]
      [] location = "Bottom" -> [x |-> 0, y |-> U(BOTTOM_WALL)]
      [] location = "Top"    -> [x |-> 0, y |-> U(TOP_WALL)]

\* WallLocation::size, halved (the Aabb2d half extent of the wall's scale)
WallHalfSize(location) ==
    LET arena_height == TOP_WALL - BOTTOM_WALL
        arena_width == RIGHT_WALL - LEFT_WALL
    IN  IF location \in {"Left", "Right"}
        THEN [x |-> HalfU(WALL_THICKNESS),
              y |-> HalfU(arena_height + VERTICAL_WALL_THICKNESS)]
        ELSE [x |-> HalfU(arena_width + WALL_THICKNESS),
              y |-> HalfU(VERTICAL_WALL_THICKNESS)]

\* the x of a paddle, as spawned by setup
PaddleX(paddle_type) ==
    IF paddle_type = "Left" THEN U(LEFT_WALL + GAP_BETWEEN_PADDLE_AND_SIDES)
                            ELSE U(RIGHT_WALL - GAP_BETWEEN_PADDLE_AND_SIDES)

\* the entities With<Collider>, in the order setup spawns them: the two
\* paddles, then the walls Left, Right, Bottom, Top
Colliders(pads) ==
    << [wall_type |-> "None", paddle |-> TRUE, name |-> "PaddleLeft",
        pos |-> [x |-> PaddleX("Left"), y |-> pads["Left"]],
        half |-> [x |-> HalfU(PADDLE_SIZE_X), y |-> HalfU(PADDLE_SIZE_Y)]],
       [wall_type |-> "None", paddle |-> TRUE, name |-> "PaddleRight",
        pos |-> [x |-> PaddleX("Right"), y |-> pads["Right"]],
        half |-> [x |-> HalfU(PADDLE_SIZE_X), y |-> HalfU(PADDLE_SIZE_Y)]],
       [wall_type |-> "Left", paddle |-> FALSE, name |-> "WallLeft",
        pos |-> WallPosition("Left"), half |-> WallHalfSize("Left")],
       [wall_type |-> "Right", paddle |-> FALSE, name |-> "WallRight",
        pos |-> WallPosition("Right"), half |-> WallHalfSize("Right")],
       [wall_type |-> "Bottom", paddle |-> FALSE, name |-> "WallBottom",
        pos |-> WallPosition("Bottom"), half |-> WallHalfSize("Bottom")],
       [wall_type |-> "Top", paddle |-> FALSE, name |-> "WallTop",
        pos |-> WallPosition("Top"), half |-> WallHalfSize("Top")] >>

(* ------------------------------ geometry ------------------------------- *)
\* Aabb2d::closest_point: the centre clamped into the box, per axis
ClosestPoint(center, box_pos, box_half) ==
    [x |-> Clamp(center.x, box_pos.x - box_half.x, box_pos.x + box_half.x),
     y |-> Clamp(center.y, box_pos.y - box_half.y, box_pos.y + box_half.y)]

\* intersects with "<" for "<=": a ball that just touches does not intersect
Intersects_strict(center, radius, box_pos, box_half) ==
    LET closest == ClosestPoint(center, box_pos, box_half)
        dx == center.x - closest.x
        dy == center.y - closest.y
    IN  /\ Abs(dx) <= radius
        /\ Abs(dy) <= radius
        /\ dx * dx + dy * dy < radius * radius

\* BoundingCircle::intersects(&Aabb2d): distance_squared <= radius squared
\* (the first two conjuncts keep the squares small; they follow from the third)
Intersects(center, radius, box_pos, box_half) ==
    LET closest == ClosestPoint(center, box_pos, box_half)
        dx == center.x - closest.x
        dy == center.y - closest.y
    IN  /\ Abs(dx) <= radius
        /\ Abs(dy) <= radius
        /\ dx * dx + dy * dy <= radius * radius

\* ball_collision with ">=" for ">" in the comparison of the offsets
ball_collision_tie_sideways(center, radius, box_pos, box_half) ==
    IF ~Intersects(center, radius, box_pos, box_half) THEN "None"
    ELSE LET closest == ClosestPoint(center, box_pos, box_half)
             offset == [x |-> center.x - closest.x, y |-> center.y - closest.y]
         IN  IF Abs(offset.x) >= Abs(offset.y)
             THEN (IF offset.x < 0 THEN "Left" ELSE "Right")
             ELSE IF offset.y > 0 THEN "Top" ELSE "Bottom"

\* fn ball_collision: "None" or the side of the box the ball is on
ball_collision(center, radius, box_pos, box_half) ==
    IF ~Intersects(center, radius, box_pos, box_half) THEN "None"
    ELSE LET closest == ClosestPoint(center, box_pos, box_half)
             offset == [x |-> center.x - closest.x, y |-> center.y - closest.y]
         IN  IF Abs(offset.x) > Abs(offset.y)
             THEN (IF offset.x < 0 THEN "Left" ELSE "Right")
             ELSE IF offset.y > 0 THEN "Top" ELSE "Bottom"

(* ------------------------------- systems ------------------------------- *)
\* velocity.x > 0.0 and velocity.x < 0.0, and the same for y
VxPos(v) == v.sx > 0 /\ v.qx > 0
VxNeg(v) == v.sx < 0 /\ v.qx > 0
VyPos(v) == v.sy > 0 /\ v.qy > 0
VyNeg(v) == v.sy < 0 /\ v.qy > 0

\* fn apply_velocity: translation += velocity * time.delta_secs()
apply_velocity(b) ==
    [b EXCEPT !.x = b.x + b.vel.sx * Step(b.vel.qx, b.vel.esc),
              !.y = b.y + b.vel.sy * Step(b.vel.qy, b.vel.esc)]

\* fn move_paddle, the clamp bounds
top_bound == U(TOP_WALL) - HalfU(WALL_THICKNESS) - HalfU(PADDLE_SIZE_Y)
bottom_bound == U(BOTTOM_WALL) + HalfU(WALL_THICKNESS) + HalfU(PADDLE_SIZE_Y)

\* fn move_paddle, directions and accelerate_factors from the pressed keys
Direction(pressed, paddle_type) ==
    IF paddle_type = "Left"
    THEN (IF "KeyW" \in pressed THEN 1 ELSE 0) - (IF "KeyS" \in pressed THEN 1 ELSE 0)
    ELSE (IF "ArrowUp" \in pressed THEN 1 ELSE 0)
         - (IF "ArrowDown" \in pressed THEN 1 ELSE 0)

AccelerateFactor(pressed, paddle_type) ==
    IF paddle_type = "Left"
    THEN (IF "ShiftLeft" \in pressed THEN 2 ELSE 1)
    ELSE (IF "NumpadEnter" \in pressed THEN 2 ELSE 1)

\* move_paddle without the clamp
move_paddle_unclamped(pads, pressed) ==
    [p \in PaddleTypes |->
        pads[p] + Direction(pressed, p) * PADDLE_SPEED * UnitsPerTick
                  * AccelerateFactor(pressed, p)]

\* fn move_paddle: direction * PADDLE_SPEED * accelerate_fact * delta_secs,
\* then clamp; PADDLE_SPEED * delta_secs is PADDLE_SPEED * UnitsPerTick
\* position units
move_paddle(pads, pressed) ==
    [p \in PaddleTypes |->
        LET new_paddle_position ==
                pads[p] + Direction(pressed, p) * PADDLE_SPEED * UnitsPerTick
                          * AccelerateFactor(pressed, p)
        IN  Clamp(new_paddle_position, bottom_bound, top_bound)]

\* ball_velocity.x *= 1.2; ball_velocity.y *= 1.2
Escalate(v) == [v EXCEPT !.esc = v.esc + 1]

\* the reflection without the test of the direction of the ball
Reflect_unguarded(v, collision) ==
    [v EXCEPT !.sx = IF collision \in {"Left", "Right"} THEN -v.sx ELSE v.sx,
              !.sy = IF collision \in {"Top", "Bottom"} THEN -v.sy ELSE v.sy]

\* the reflect_x / reflect_y part of check_for_collisions
Reflect(v, collision) ==
    LET reflect_x == \/ (collision = "Left" /\ VxPos(v))
                     \/ (collision = "Right" /\ VxNeg(v))
        reflect_y == \/ (collision = "Top" /\ VyNeg(v))
                     \/ (collision = "Bottom" /\ VyPos(v))
    IN  [v EXCEPT !.sx = IF reflect_x THEN -v.sx ELSE v.sx,
                  !.sy = IF reflect_y THEN -v.sy ELSE v.sy]

\* the scoring arm without the write of the winner
ScoreArm_no_winner(acc, c, player, event, side) ==
    LET new_score == [acc.score EXCEPT ![player] = acc.score[player] + 1]
        won == new_score[player] >= TARGET_SCORE
    IN  [acc EXCEPT !.score = new_score,
                    !.score_events = Append(acc.score_events, event),
                    !.next_state = IF won THEN "GameOver" ELSE acc.next_state,
                    !.requested = acc.requested \/ won]

\* the scoring arm with "score += 2"
ScoreArm_two_points(acc, c, player, event, side) ==
    LET new_score == [acc.score EXCEPT ![player] = acc.score[player] + 2]
        won == new_score[player] >= TARGET_SCORE
    IN  [acc EXCEPT !.score = new_score,
                    !.score_events = Append(acc.score_events, event),
                    !.winner = IF won THEN side ELSE acc.winner,
                    !.next_state = IF won THEN "GameOver" ELSE acc.next_state,
                    !.requested = acc.requested \/ won]

\* the scoring arm with "score > TARGET_SCORE" for "score >= TARGET_SCORE"
ScoreArm_past_target(acc, c, player, event, side) ==
    LET new_score == [acc.score EXCEPT ![player] = acc.score[player] + 1]
        won == new_score[player] > TARGET_SCORE
    IN  [acc EXCEPT !.score = new_score,
                    !.score_events = Append(acc.score_events, event),
                    !.winner = IF won THEN side ELSE acc.winner,
                    !.next_state = IF won THEN "GameOver" ELSE acc.next_state,
                    !.requested = acc.requested \/ won]

\* the arm of a scoring wall: score += 1, write the ScoreEvent, set the
\* winner and request GameOver at TARGET_SCORE, continue
ScoreArm(acc, c, player, event, side) ==
    LET new_score == [acc.score EXCEPT ![player] = acc.score[player] + 1]
        won == new_score[player] >= TARGET_SCORE
    IN  [acc EXCEPT !.score = new_score,
                    !.score_events = Append(acc.score_events, event),
                    !.winner = IF won THEN side ELSE acc.winner,
                    !.next_state = IF won THEN "GameOver" ELSE acc.next_state,
                    !.requested = acc.requested \/ won]

\* the bounce arm with the speed-up applied to every collider
BounceArm_speeds_up_on_walls(acc, c, collision) ==
    [acc EXCEPT !.collision_events = acc.collision_events + 1,
                !.vel = Reflect(Escalate(acc.vel), collision)]

\* the rest of the loop body: write the CollisionEvent, speed up on a
\* paddle, reflect
BounceArm(acc, c, collision) ==
    LET sped == IF c.paddle THEN Escalate(acc.vel) ELSE acc.vel
    IN  [acc EXCEPT !.collision_events = acc.collision_events + 1,
                    !.vel = Reflect(sped, collision)]

\* the loop body without the "continue" of the scoring arms
CollideWith_no_continue(acc, c, center) ==
    LET collision == ball_collision(center, HalfU(BALL_SIZE), c.pos, c.half)
    IN  IF collision = "None" THEN acc
        ELSE IF c.wall_type = "Right"
             THEN BounceArm(ScoreArm(acc, c, 1, "Player1Scored", "Left"), c, collision)
        ELSE IF c.wall_type = "Left"
             THEN BounceArm(ScoreArm(acc, c, 2, "Player2Scored", "Right"), c, collision)
        ELSE BounceArm(acc, c, collision)

\* one iteration of the loop of check_for_collisions
CollideWith(acc, c, center) ==
    LET collision == ball_collision(center, HalfU(BALL_SIZE), c.pos, c.half)
    IN  IF collision = "None" THEN acc
        ELSE IF c.wall_type = "Right"
             THEN ScoreArm(acc, c, 1, "Player1Scored", "Left")
        ELSE IF c.wall_type = "Left"
             THEN ScoreArm(acc, c, 2, "Player2Scored", "Right")
        ELSE BounceArm(acc, c, collision)

RECURSIVE CollisionLoop(_, _, _, _)
CollisionLoop(acc, colliders, i, center) ==
    IF i > Len(colliders) THEN acc
    ELSE CollisionLoop(CollideWith(acc, colliders[i], center), colliders, i + 1, center)

\* fn check_for_collisions: the ball against every collider, once
check_for_collisions(sc, win, nxt, b, pads) ==
    CollisionLoop([score |-> sc, winner |-> win, next_state |-> nxt,
                   vel |-> b.vel, collision_events |-> 0, score_events |-> <<>>,
                   requested |-> FALSE],
                  Colliders(pads), 1, [x |-> b.x, y |-> b.y])

\* the values of temp_num that random_range(0.1..=0.5) comes to draw, each as
\* <<num, den>> with temp_num^2 = num / den
ServeRatios == {<<1, 9>>, <<76, 549>>}
\* random_bool(0.5): sign is 1.0 or -1.0
ServeSigns == {1, -1}

\* ball_reset without "normalize() * BALL_SPEED": the speed-ups survive the serve
ball_reset_keeps_speed(b, sign, ratio) ==
    LET v == b.vel
    IN  [x |-> IF b.x > 0 THEN U(LEFT_WALL + SERVE_MARGIN)
                          ELSE U(RIGHT_WALL - SERVE_MARGIN),
         y |-> 0,
         vel |-> [NormalizeTimes(v.sx, v.qx * ratio[2], v.sx * sign,
                                 v.qx * ratio[1], BALL_SPEED)
                  EXCEPT !.esc = v.esc]]

\* ball_reset with the two serve spots swapped
ball_reset_same_side(b, sign, ratio) ==
    LET v == b.vel
    IN  [x |-> IF b.x > 0 THEN U(RIGHT_WALL - SERVE_MARGIN)
                          ELSE U(LEFT_WALL + SERVE_MARGIN),
         y |-> 0,
         vel |-> NormalizeTimes(v.sx, v.qx * ratio[2], v.sx * sign,
                                v.qx * ratio[1], BALL_SPEED)]

\* fn ball_reset, run when a ScoreEvent is unread: a new y from x, the
\* speed back to BALL_SPEED, the ball onto the serve spot
ball_reset(b, sign, ratio) ==
    LET v == b.vel
        \* ball_velocity.y = ball_velocity.x * temp_num
        y_sign == v.sx * sign
        x_sq == v.qx * ratio[2]
        y_sq == v.qx * ratio[1]
    IN  [x |-> IF b.x > 0 THEN U(LEFT_WALL + SERVE_MARGIN)
                          ELSE U(RIGHT_WALL - SERVE_MARGIN),
         y |-> 0,
         vel |-> NormalizeTimes(v.sx, x_sq, y_sign, y_sq, BALL_SPEED)]

\* game_reset without the reset of the ball
game_reset_keeps_ball(sc, pads, b) ==
    [score |-> <<0, 0>>, paddles |-> [p \in PaddleTypes |-> 0], ball |-> b]

\* fn game_reset (OnEnter(GameState::Playing)): score, paddles and ball
game_reset(sc, pads, b) ==
    [score |-> <<0, 0>>,
     paddles |-> [p \in PaddleTypes |-> 0],
     ball |-> [x |-> U(BALL_STARTING_X), y |-> U(BALL_STARTING_Y),
               vel |-> InitialVelocity]]

\* fn display_winner (OnEnter(GameState::GameOver)): the message
display_winner(win) ==
    CASE win = "Left"  -> "PLAYER 1 WIN!"
      [] win = "Right" -> "PLAYER 2 WIN!"
      [] OTHER         -> "GAME OVER!"

(* ------------------------------- events -------------------------------- *)
\* Events<E>: the buffer of the events written since the last update and
\* the buffer of those written before it
NoEvents == [older |-> <<>>, newer |-> <<>>]
Buffered(events) == Len(events.older) + Len(events.newer)
\* EventWriter::write, for each of the events in written
Write(events, written) == [events EXCEPT !.newer = events.newer \o written]
\* Events::update: the older buffer is dropped, the newer one becomes the older
EventsUpdate(events) == [older |-> events.newer, newer |-> <<>>]
\* an EventReader's unread count: the events written since its cursor that
\* are still buffered
Unread(count, events) == Min(count, Buffered(events))

\* play_collision_sound without collision_events.clear()
play_collision_sound_no_clear(unread_collisions, score_evs) ==
    [collision_reader |-> unread_collisions,
     bounce_sounds |-> IF unread_collisions > 0 THEN 1 ELSE 0,
     score_sounds |-> IF Buffered(score_evs) > 0 THEN 1 ELSE 0]

\* fn play_collision_sound: the sounds spawned and the collision reader after it
\* (score_events is only asked is_empty: its cursor never moves, so every
\* buffered ScoreEvent is unread for it)
play_collision_sound(unread_collisions, score_evs) ==
    [collision_reader |-> IF unread_collisions > 0 THEN 0 ELSE unread_collisions,
     bounce_sounds |-> IF unread_collisions > 0 THEN 1 ELSE 0,
     score_sounds |-> IF Buffered(score_evs) > 0 THEN 1 ELSE 0]

(* ------------------------------- actions ------------------------------- *)
\* the paddles the ball intersects, and all the colliders it intersects
Touched(b, pads) ==
    LET colliders == Colliders(pads)
    IN  {colliders[i].name : i \in
            {k \in 1..Len(colliders) :
                ball_collision([x |-> b.x, y |-> b.y], HalfU(BALL_SIZE),
                               colliders[k].pos, colliders[k].half) # "None"}}

NoTick ==
    [hits |-> {}, collision_events |-> 0, score_events |-> <<>>,
     requested |-> FALSE, reset |-> FALSE,
     bounce_sounds |-> 0, score_sounds |-> 0,
     score_before |-> <<0, 0>>, score_after |-> <<0, 0>>,
     vel_before |-> InitialVelocity, vel_after_pass |-> InitialVelocity]

\* no collider is put to the loop body on its own
NoProbe ==
    [collider |-> 0, center |-> [x |-> 0, y |-> 0], vel |-> InitialVelocity,
     side |-> "Unused", after |-> InitialVelocity]

\* the state setup leaves: the resources main inserts, the entities setup
\* spawns; the first frame is in its fixed main loop
Init ==
    /\ state = "Playing"
    /\ next_state = "Unchanged"
    /\ score = <<0, 0>>
    /\ winner = "None"
    /\ ball = [x |-> U(BALL_STARTING_X), y |-> U(BALL_STARTING_Y),
               vel |-> InitialVelocity]
    /\ paddles = [p \in PaddleTypes |-> 0]
    /\ victory_text = "None"
    /\ keys = {}
    /\ k_just_pressed = FALSE
    /\ collision_events = NoEvents
    /\ score_events = NoEvents
    /\ collision_reader = 0
    /\ reset_reader = 0
    /\ should_update = FALSE
    /\ phase = "RunFixedMainLoop"
    /\ fixed_runs = 0
    /\ contacts = 0
    /\ tick = NoTick
    /\ probe = NoProbe

\* Something of the frame is open: a requested state, a just-pressed key, a
\* buffered event.  Only then does the model step through the schedules of
\* the frame; frames in which FixedUpdate alone has work to do are not
\* told apart.
Tracked(nxt, k, coll, sc) ==
    nxt # "Unchanged" \/ k \/ Buffered(coll) > 0 \/ Buffered(sc) > 0

\* the ball lies where a serve or a match start puts it
BallOnSpot ==
    /\ ball.y = 0
    /\ ball.x \in {U(BALL_STARTING_X), U(LEFT_WALL + SERVE_MARGIN),
                   U(RIGHT_WALL - SERVE_MARGIN)}

\* a match is about to start: nothing has moved since setup or game_reset
MatchStart ==
    /\ state = "Playing"
    /\ score = <<0, 0>>
    /\ ball.x = U(BALL_STARTING_X) /\ ball.y = U(BALL_STARTING_Y)
    /\ paddles = [p \in PaddleTypes |-> 0]

\* the moments at which the model lets the keyboard change
InputMoment == state = "GameOver" \/ BallOnSpot

\* the simulation systems without their run condition
FixedUpdateRuns_always == TRUE

\* .run_if(in_state(GameState::Playing)) of the simulation systems
FixedUpdateRuns == state = "Playing"

\* The chain apply_velocity, move_paddle, check_for_collisions,
\* play_collision_sound, ball_reset of one FixedUpdate run, with the keys
\* that are pressed, the event buffers and the unread counts of the readers
\* it finds
SimulateWith(pressed, coll, sc, unread_coll, unread_sc) ==
    \E moved \in {apply_velocity(ball)}, pads \in {move_paddle(paddles, pressed)} :
    \E pass \in {check_for_collisions(score, winner, next_state, moved, pads)} :
    \E hits \in {Touched(moved, pads)} :
    LET after_pass == [moved EXCEPT !.vel = pass.vel]
        coll_evs == Write(coll, [i \in 1..pass.collision_events |-> "Collision"])
        score_evs == Write(sc, pass.score_events)
        sound == play_collision_sound(unread_coll + pass.collision_events,
                                      score_evs)
        unread_scores == unread_sc + Len(pass.score_events)
        \* ball_reset: if !score_events.is_empty()
        resets == unread_scores > 0
    IN  /\ paddles' = pads
        /\ score' = pass.score
        /\ winner' = pass.winner
        /\ next_state' = pass.next_state
        /\ collision_events' = coll_evs
        /\ score_events' = score_evs
        /\ collision_reader' = sound.collision_reader
        /\ reset_reader' = IF resets THEN 0 ELSE unread_scores
        /\ IF resets
           THEN \E sign \in ServeSigns, ratio \in ServeRatios :
                   ball' = ball_reset(after_pass, sign, ratio)
           ELSE ball' = after_pass
        /\ contacts' = IF resets THEN 0
                       ELSE contacts
                            + Cardinality(hits \cap {"PaddleLeft", "PaddleRight"})
        /\ tick' = [hits |-> hits,
                    collision_events |-> pass.collision_events,
                    score_events |-> pass.score_events,
                    requested |-> pass.requested,
                    reset |-> resets,
                    bounce_sounds |-> sound.bounce_sounds,
                    score_sounds |-> sound.score_sounds,
                    score_before |-> score, score_after |-> pass.score,
                    vel_before |-> ball.vel, vel_after_pass |-> pass.vel]

Simulate ==
    SimulateWith(keys, collision_events, score_events, collision_reader,
                 reset_reader)

\* One run of the FixedUpdate schedule in the fixed main loop of the frame:
\* the simulation systems if their run condition holds, and the signal that
\* lets the next frame rotate the event buffers
FixedUpdate ==
    /\ UNCHANGED probe
    /\ phase = "RunFixedMainLoop"
    /\ fixed_runs < MaxTicksPerFrame
    /\ IF FixedUpdateRuns
       THEN Simulate
       ELSE UNCHANGED <<paddles, score, winner, next_state, collision_events,
                        score_events, collision_reader, reset_reader, ball,
                        contacts, tick>>
    /\ LET tracked == Tracked(next_state', k_just_pressed,
                              collision_events', score_events')
       IN  /\ fixed_runs' = IF tracked THEN fixed_runs + 1 ELSE 0
           /\ should_update' = tracked
    /\ UNCHANGED <<state, victory_text, keys, k_just_pressed, phase>>

\* fn game_over_keyboard
game_over_keyboard(nxt, k) == IF k THEN "Playing" ELSE nxt

\* game_over_keyboard without its run condition
GameOverKeyboardRuns_always == TRUE

\* game_over_keyboard.run_if(in_state(GameState::GameOver))
GameOverKeyboardRuns == state = "GameOver"

\* The Update schedule, which ends the frame
Update ==
    /\ UNCHANGED probe
    /\ phase = "RunFixedMainLoop"
    /\ Tracked(next_state, k_just_pressed, collision_events, score_events)
       \/ InputMoment
    /\ next_state' = IF GameOverKeyboardRuns
                     THEN game_over_keyboard(next_state, k_just_pressed)
                     ELSE next_state
    /\ phase' = "First"
    /\ fixed_runs' = 0
    /\ UNCHANGED <<state, score, winner, ball, paddles, victory_text, keys,
                   k_just_pressed, collision_events, score_events,
                   collision_reader, reset_reader, should_update, contacts, tick>>

\* The First schedule: event_update_system rotates the buffers of every
\* event type if a FixedUpdate ran since it last did
First ==
    /\ UNCHANGED probe
    /\ phase = "First"
    /\ IF should_update
       THEN /\ collision_events' = EventsUpdate(collision_events)
            /\ score_events' = EventsUpdate(score_events)
            /\ collision_reader' = Unread(collision_reader, collision_events')
            /\ reset_reader' = Unread(reset_reader, score_events')
       ELSE UNCHANGED <<collision_events, score_events, collision_reader,
                        reset_reader>>
    /\ should_update' = FALSE
    /\ phase' = "PreUpdate"
    /\ UNCHANGED <<state, next_state, score, winner, ball, paddles,
                   victory_text, keys, k_just_pressed, fixed_runs, contacts, tick>>

\* the sets of paddle keys the players come to hold
KeyChords ==
    {{}, {"KeyS"}, {"ShiftLeft", "KeyW"}, {"ArrowUp"}, {"NumpadEnter", "ArrowDown"}}

\* The PreUpdate schedule: the input collaborator updates ButtonInput.  KeyK
\* is just pressed in this frame or not; the players settle the paddle keys
\* they hold before a match starts and hold them through the match.
PreUpdate ==
    /\ UNCHANGED probe
    /\ phase = "PreUpdate"
    /\ k_just_pressed' \in (IF InputMoment THEN BOOLEAN ELSE {FALSE})
    /\ keys' \in (IF MatchStart THEN KeyChords ELSE {keys})
    /\ phase' = "StateTransition"
    /\ UNCHANGED <<state, next_state, score, winner, ball, paddles,
                   victory_text, collision_events, score_events,
                   collision_reader, reset_reader, should_update, fixed_runs,
                   contacts, tick>>

\* The StateTransition schedule: a pending NextState that differs from the
\* state is applied, the entities scoped to the state left are despawned and
\* the OnEnter schedule of the state entered runs
StateTransition ==
    /\ UNCHANGED probe
    /\ phase = "StateTransition"
    /\ next_state' = "Unchanged"
    /\ phase' = "RunFixedMainLoop"
    /\ IF next_state \notin {"Unchanged", state}
       THEN /\ state' = next_state
            /\ IF next_state = "Playing"
               THEN LET r == game_reset(score, paddles, ball)
                    IN  /\ score' = r.score
                        /\ paddles' = r.paddles
                        /\ ball' = r.ball
                        /\ contacts' = 0
                        /\ victory_text' = "None"
               ELSE /\ victory_text' = display_winner(winner)
                    /\ UNCHANGED <<score, paddles, ball, contacts>>
       ELSE UNCHANGED <<state, score, paddles, ball, contacts, victory_text>>
    /\ UNCHANGED <<winner, keys, k_just_pressed, collision_events, score_events,
                   collision_reader, reset_reader, should_update, fixed_runs, tick>>

Next ==
    \/ First
    \/ PreUpdate
    \/ StateTransition
    \/ FixedUpdate
    \/ Update

Spec == Init /\ [][Next]_vars

(* ---------------- one collider, one iteration of the loop -------------- *)
\* distances of the ball centre from an edge of the collider, in position
\* units: on the edge, just off it, 6, 7, 8 and 10 world units off it
\* (10 is BALL_SIZE / 2, and 6 and 8 put a centre at that distance from a
\* corner), and just beyond 10
ProbeOffsets == {0, 1, U(6), U(7), U(8), U(10), U(10) + 1}

\* the coordinates of the ball centre tried along one axis of a collider
ProbeAxis(pos, half) ==
    {pos} \cup {pos + half + o : o \in ProbeOffsets}
          \cup {pos - half - o : o \in ProbeOffsets}

\* every collider of setup, a ball centre around it and a ball velocity with
\* the magnitude BALL_SPEED in each of the four diagonal directions
ProbeInit ==
    /\ state = "Playing"
    /\ next_state = "Unchanged"
    /\ score = <<0, 0>>
    /\ winner = "None"
    /\ ball = [x |-> U(BALL_STARTING_X), y |-> U(BALL_STARTING_Y),
               vel |-> InitialVelocity]
    /\ paddles = [p \in PaddleTypes |-> 0]
    /\ victory_text = "None"
    /\ keys = {}
    /\ k_just_pressed = FALSE
    /\ collision_events = NoEvents
    /\ score_events = NoEvents
    /\ collision_reader = 0
    /\ reset_reader = 0
    /\ should_update = FALSE
    /\ phase = "RunFixedMainLoop"
    /\ fixed_runs = 0
    /\ contacts = 0
    /\ tick = NoTick
    /\ \E i \in 1..Len(Colliders(paddles)) :
       LET c == Colliders(paddles)[i]
       IN  \E cx \in ProbeAxis(c.pos.x, c.half.x), cy \in ProbeAxis(c.pos.y, c.half.y),
              sx \in {1, -1}, sy \in {1, -1} :
              LET v == [InitialVelocity EXCEPT !.sx = sx, !.sy = sy]
              IN  probe = [collider |-> i, center |-> [x |-> cx, y |-> cy],
                           vel |-> v, side |-> "Pending", after |-> v]

\* ball_collision of the ball against the collider, and the velocity the
\* iteration of the loop of check_for_collisions for that collider leaves
ProbeCollision ==
    /\ probe.side = "Pending"
    /\ LET c == Colliders(paddles)[probe.collider]
           acc == [score |-> score, winner |-> winner, next_state |-> next_state,
                   vel |-> probe.vel, collision_events |-> 0,
                   score_events |-> <<>>, requested |-> FALSE]
       IN  probe' = [probe EXCEPT
                        !.side = ball_collision(probe.center, HalfU(BALL_SIZE),
                                                c.pos, c.half),
                        !.after = CollideWith(acc, c, probe.center).vel]
    /\ UNCHANGED <<state, next_state, score, winner, ball, paddles, victory_text,
                   keys, k_just_pressed, collision_events, score_events,
                   collision_reader, reset_reader, should_update, phase,
                   fixed_runs, contacts, tick>>

ProbeNext == ProbeCollision

ProbeSpec == ProbeInit /\ [][ProbeNext]_vars

(* ------------------- a rally of two players who follow the ball -------- *)
\* the keys of two players who each steer their paddle towards the height of
\* the ball, with the boost key held
TrackingKeys(b, pads) ==
    (IF b.y > pads["Left"] THEN {"KeyW", "ShiftLeft"}
     ELSE IF b.y < pads["Left"] THEN {"KeyS", "ShiftLeft"} ELSE {})
    \cup
    (IF b.y > pads["Right"] THEN {"ArrowUp", "NumpadEnter"}
     ELSE IF b.y < pads["Right"] THEN {"ArrowDown", "NumpadEnter"} ELSE {})

\* the ball intersects no wall collider and lies beyond the outer face of one
Escaped ==
    \/ Abs(ball.x) > U(RIGHT_WALL) + HalfU(WALL_THICKNESS) + HalfU(BALL_SIZE)
    \/ Abs(ball.y) > U(TOP_WALL) + HalfU(VERTICAL_WALL_THICKNESS) + HalfU(BALL_SIZE)

\* The rest of a frame and the next frame up to the end of its one
\* FixedUpdate run, in the opening rally of a match: Update (nothing of it
\* runs in Playing), First (the event buffers rotate), PreUpdate (the
\* players' keys), StateTransition (nothing is pending), FixedUpdate.  The
\* rally is followed until a goal or until the ball has left the arena.
RallyFrame ==
    /\ state = "Playing"
    /\ next_state = "Unchanged"
    /\ phase = "RunFixedMainLoop"
    /\ score = <<0, 0>>
    /\ ~Escaped
    /\ \E pressed \in {TrackingKeys(ball, paddles)} :
       \E coll \in {IF should_update THEN EventsUpdate(collision_events)
                                     ELSE collision_events},
          sc \in {IF should_update THEN EventsUpdate(score_events)
                                   ELSE score_events} :
          /\ keys' = pressed
          /\ SimulateWith(pressed, coll, sc, Unread(collision_reader, coll),
                          Unread(reset_reader, sc))
    /\ k_just_pressed' = FALSE
    /\ should_update' = TRUE
    /\ fixed_runs' = 0
    /\ UNCHANGED <<state, victory_text, phase, probe>>

RallyNext == RallyFrame

RallySpec == Init /\ [][RallyNext]_vars

(* ------------------------------- claims -------------------------------- *)
Reached(sc) == sc[1] >= TARGET_SCORE \/ sc[2] >= TARGET_SCORE

\* C1: when KeyK is just pressed in GameOver the Update of that frame requests
\* Playing, and the step that leaves GameOver enters Playing with the score at
\* (0, 0), both paddles at y = 0 and the ball at BALL_STARTING_POSITION with
\* the velocity INITIAL_BALL_DIRECTION.normalize() * BALL_SPEED, whatever
\* they were before.
C1_RestartResets ==
    [][ /\ (state = "GameOver" /\ k_just_pressed
            /\ phase = "RunFixedMainLoop" /\ phase' = "First")
           => next_state' = "Playing"
        /\ (state = "GameOver" /\ state' # "GameOver")
           => /\ state' = "Playing"
              /\ score' = <<0, 0>>
              /\ \A p \in PaddleTypes : paddles'[p] = 0
              /\ ball'.x = U(BALL_STARTING_X) /\ ball'.y = U(BALL_STARTING_Y)
              /\ ball'.vel.sx = 1 /\ ball'.vel.sy = -1
              /\ ball'.vel.qx = ball'.vel.qy
              /\ ball'.vel.qx + ball'.vel.qy = BALL_SPEED * BALL_SPEED
              /\ ball'.vel.esc = 0 ]_vars

\* a match restarted after one that ended with keys held (a paddle at its
\* bound) and a score of TARGET_SCORE
C1_Witness ==
    /\ MatchStart
    /\ Reached(tick.score_after)
    /\ keys # {}
    /\ ball.vel = InitialVelocity

\* C2: in Playing, while no score has reached TARGET_SCORE, Winner is none
\* (also after a restart: the reset clears it).
C2_WinnerClearedByReset ==
    (state = "Playing" /\ ~Reached(score)) => winner = "None"

\* C3: a goal that brings a score to TARGET_SCORE records the scorer's side
\* as the winner and requests GameOver in that tick; a tick requests GameOver
\* only if a score has reached TARGET_SCORE.
C3_TargetScoreEndsMatch ==
    /\ (tick.score_before[1] < TARGET_SCORE /\ tick.score_after[1] >= TARGET_SCORE)
       => (winner = "Left" /\ tick.requested)
    /\ (tick.score_before[2] < TARGET_SCORE /\ tick.score_after[2] >= TARGET_SCORE)
       => (winner = "Right" /\ tick.requested)
    /\ tick.requested => Reached(tick.score_after)
    /\ (state = "Playing" /\ Reached(score)) => next_state = "GameOver"
    /\ (state = "Playing" /\ next_state = "GameOver") => Reached(score)

\* the tick in which player 2 scores the ninth goal
C3_Witness ==
    /\ tick.score_before[2] = TARGET_SCORE - 1
    /\ tick.score_after[2] = TARGET_SCORE
    /\ tick.requested
    /\ winner = "Right"
    /\ state = "Playing" /\ next_state = "GameOver"

\* C4: a step taken in GameOver that stays in GameOver changes neither the
\* score nor the ball nor a paddle.
C4_GameOverFreezes ==
    [][ (state = "GameOver" /\ state' = "GameOver")
        => UNCHANGED <<score, ball, paddles>> ]_vars

\* a FixedUpdate has run in GameOver while paddle keys were held
C4_Witness ==
    /\ state = "GameOver"
    /\ fixed_runs > 0
    /\ keys # {}

\* C5: GameOver is left only for Playing and only on a pending request for
\* Playing; Playing is requested only in GameOver in a frame in which KeyK was
\* just pressed; the Update of a frame in which KeyK was just pressed in
\* Playing changes nothing of the match.
C5_OnlyRestartLeavesGameOver ==
    [][ /\ (state = "GameOver" /\ state' # "GameOver")
           => (state' = "Playing" /\ next_state = "Playing")
        /\ (next_state' = "Playing" /\ next_state # "Playing")
           => (state = "GameOver" /\ k_just_pressed)
        /\ (state = "Playing" /\ k_just_pressed
            /\ phase = "RunFixedMainLoop" /\ phase' = "First")
           => UNCHANGED <<state, next_state, score, winner, ball, paddles>> ]_vars

\* the Update of a frame in which KeyK was just pressed has run in mid-match
C5_Witness ==
    /\ state = "Playing"
    /\ k_just_pressed
    /\ phase = "First"
    /\ score # <<0, 0>>
    /\ next_state = "Unchanged"

\* C6: each paddle's y lies between
\* BOTTOM_WALL + WALL_THICKNESS/2 + PADDLE_SIZE.y/2 and
\* TOP_WALL - WALL_THICKNESS/2 - PADDLE_SIZE.y/2.
C6_PaddleWithinBounds ==
    \A p \in PaddleTypes :
        /\ 2 * paddles[p] <= 2 * U(TOP_WALL) - U(WALL_THICKNESS) - U(PADDLE_SIZE_Y)
        /\ 2 * paddles[p] >= 2 * U(BOTTOM_WALL) + U(WALL_THICKNESS) + U(PADDLE_SIZE_Y)

\* the left paddle, moved up with the boost key held, stopped by the clamp
C6_Witness ==
    /\ keys = {"ShiftLeft", "KeyW"}
    /\ 2 * paddles["Left"] = 2 * U(TOP_WALL) - U(WALL_THICKNESS) - U(PADDLE_SIZE_Y)

\* C7: no paddle rectangle overlaps the collider rectangle of the Top or of
\* the Bottom wall.
C7_PaddleClearOfWalls ==
    \A p \in PaddleTypes :
        /\ paddles[p] + HalfU(PADDLE_SIZE_Y)
              <= WallPosition("Top").y - WallHalfSize("Top").y
        /\ paddles[p] - HalfU(PADDLE_SIZE_Y)
              >= WallPosition("Bottom").y + WallHalfSize("Bottom").y

\* C8: after a tick that wrote a ScoreEvent the ball's speed is BALL_SPEED:
\* the square of the magnitude is BALL_SPEED^2 and no 1.2 factor is left.
C8_ScoreResetsSpeed ==
    Len(tick.score_events) > 0
    => (BaseSpeed2(ball.vel) = BALL_SPEED * BALL_SPEED /\ ball.vel.esc = 0)

\* a goal with a ball that had been sped up
C8_Witness ==
    /\ Len(tick.score_events) > 0
    /\ tick.vel_before.esc > 0
    /\ tick.reset
    /\ ball.vel.esc = 0

\* C9: the ball's speed is BALL_SPEED * 1.2^N, N the number of paddle
\* contacts since the last serve or match start: the base vector has the
\* magnitude BALL_SPEED and the number of 1.2 factors is N.
C9_SpeedAfterContacts ==
    /\ BaseSpeed2(ball.vel) = BALL_SPEED * BALL_SPEED
    /\ ball.vel.esc = contacts

\* a bounce off the Top or Bottom wall after a paddle contact
C9_Witness ==
    /\ contacts >= 1
    /\ tick.vel_before.esc >= 1
    /\ tick.hits \cap {"WallTop", "WallBottom"} # {}
    /\ tick.hits \cap {"PaddleLeft", "PaddleRight"} = {}

\* C10: a tick in which the ball intersects the Right wall adds exactly 1 to
\* player 1's score and writes Player1Scored (the Left wall: player 2,
\* Player2Scored); a scoring wall writes no CollisionEvent and neither speeds
\* up nor reflects the ball.
C10_ScoringWallNoPhysics ==
    /\ "WallRight" \in tick.hits
       => /\ tick.score_after[1] = tick.score_before[1] + 1
          /\ \E i \in DOMAIN tick.score_events : tick.score_events[i] = "Player1Scored"
    /\ "WallLeft" \in tick.hits
       => /\ tick.score_after[2] = tick.score_before[2] + 1
          /\ \E i \in DOMAIN tick.score_events : tick.score_events[i] = "Player2Scored"
    /\ tick.collision_events = Cardinality(tick.hits \ {"WallLeft", "WallRight"})
    /\ tick.vel_after_pass.esc
          = tick.vel_before.esc
            + Cardinality(tick.hits \cap {"PaddleLeft", "PaddleRight"})
    /\ tick.hits \subseteq {"WallLeft", "WallRight"}
       => tick.vel_after_pass = tick.vel_before

\* the ball on the Left wall and on nothing else
C10_Witness ==
    /\ tick.hits = {"WallLeft"}
    /\ tick.score_events = <<"Player2Scored">>
    /\ tick.collision_events = 0

\* the collider put to the loop body, and the ball centre relative to it:
\* how far the centre is beyond the box along each axis (negative inside)
ProbeBox == Colliders(paddles)[probe.collider]
ProbeExcessX == Abs(probe.center.x - ProbeBox.pos.x) - ProbeBox.half.x
ProbeExcessY == Abs(probe.center.y - ProbeBox.pos.y) - ProbeBox.half.y
ProbeDone == probe.side \notin {"Unused", "Pending"}
\* ball centre minus the closest point of the box, per axis
ProbeOffsetX ==
    IF ProbeExcessX <= 0 THEN 0
    ELSE IF probe.center.x > ProbeBox.pos.x THEN ProbeExcessX ELSE -ProbeExcessX
ProbeOffsetY ==
    IF ProbeExcessY <= 0 THEN 0
    ELSE IF probe.center.y > ProbeBox.pos.y THEN ProbeExcessY ELSE -ProbeExcessY

\* C11: for a paddle or a Top/Bottom wall the loop body negates vx on a Left
\* contact iff vx > 0 and on a Right contact iff vx < 0, vy on a Top contact
\* iff vy < 0 and on a Bottom contact iff vy > 0, keeps the sign of the other
\* component, and multiplies both components by 1.2 exactly for a paddle.
C11_ReflectIntoSurface ==
    (ProbeDone /\ probe.side # "None" /\ ProbeBox.wall_type \notin {"Left", "Right"})
    => LET v == probe.vel
           a == probe.after
       IN  /\ a.qx = v.qx /\ a.qy = v.qy
           /\ a.esc = v.esc + (IF ProbeBox.paddle THEN 1 ELSE 0)
           /\ probe.side = "Left"
              => (a.sx = (IF v.sx > 0 THEN -v.sx ELSE v.sx) /\ a.sy = v.sy)
           /\ probe.side = "Right"
              => (a.sx = (IF v.sx < 0 THEN -v.sx ELSE v.sx) /\ a.sy = v.sy)
           /\ probe.side = "Top"
              => (a.sy = (IF v.sy < 0 THEN -v.sy ELSE v.sy) /\ a.sx = v.sx)
           /\ probe.side = "Bottom"
              => (a.sy = (IF v.sy > 0 THEN -v.sy ELSE v.sy) /\ a.sx = v.sx)

\* a ball moving right on the left edge of a paddle: vx negated, both
\* components times 1.2
C11_Witness ==
    /\ ProbeDone
    /\ ProbeBox.paddle
    /\ probe.side = "Left"
    /\ probe.vel.sx = 1
    /\ probe.after.sx = -1
    /\ probe.after.sy = probe.vel.sy
    /\ probe.after.esc = probe.vel.esc + 1

\* C12: ball_collision returns None for every centre strictly outside the
\* box expanded by the ball radius on each axis, and returns None exactly
\* when the distance from the centre to the closest point of the box exceeds
\* the radius.
C12_NoneIffBeyondRadius ==
    ProbeDone
    => LET r == HalfU(BALL_SIZE)
           dx == Max(ProbeExcessX, 0)
           dy == Max(ProbeExcessY, 0)
       IN  /\ (ProbeExcessX > r \/ ProbeExcessY > r) => probe.side = "None"
           /\ probe.side = "None" <=> dx * dx + dy * dy > r * r

\* a centre inside the expanded box but further than the radius from the
\* corner: no contact
C12_Witness ==
    /\ ProbeDone
    /\ probe.side = "None"
    /\ ProbeExcessX > 0 /\ ProbeExcessX <= HalfU(BALL_SIZE)
    /\ ProbeExcessY > 0 /\ ProbeExcessY <= HalfU(BALL_SIZE)

\* C13: on a contact the side is Left (offset.x < 0) or Right iff
\* |offset.x| > |offset.y|, otherwise Top (offset.y > 0) or Bottom; a tie,
\* the centre inside the box included, gives Top or Bottom.
C13_SideByLargerOffset ==
    (ProbeDone /\ probe.side # "None")
    => /\ Abs(ProbeOffsetX) > Abs(ProbeOffsetY)
          => probe.side = (IF ProbeOffsetX < 0 THEN "Left" ELSE "Right")
       /\ Abs(ProbeOffsetX) <= Abs(ProbeOffsetY)
          => probe.side = (IF ProbeOffsetY > 0 THEN "Top" ELSE "Bottom")

\* a contact at a corner with equal offsets, classified Top
C13_Witness ==
    /\ ProbeDone
    /\ probe.side = "Top"
    /\ ProbeOffsetX < 0
    /\ ProbeOffsetY = -ProbeOffsetX

\* the paddles and Top/Bottom walls the ball intersected in the latest tick
Bounced == tick.hits \ {"WallLeft", "WallRight"}

\* C14: a tick plays the bounce sound once if the ball intersected at least
\* one paddle or Top/Bottom wall in its collision pass and not at all
\* otherwise, however many it intersected; no CollisionEvent is left unread
\* for a later tick.
C14_OneBounceSoundPerTick ==
    /\ tick.bounce_sounds = (IF Bounced # {} THEN 1 ELSE 0)
    /\ collision_reader = 0

\* a tick with two bounces, a paddle and a wall, and one sound
C14_Witness ==
    /\ Cardinality(Bounced) >= 2
    /\ tick.collision_events >= 2
    /\ tick.bounce_sounds = 1

\* a step that runs the simulation systems once
TickStep ==
    /\ state = "Playing"
    /\ phase = "RunFixedMainLoop" /\ phase' = "RunFixedMainLoop"

\* C15: a tick that writes a ScoreEvent puts the ball, in that tick, at y = 0
\* and at x = LEFT_WALL + 40 if its x was > 0, else at x = RIGHT_WALL - 40,
\* and serves it with the sign of vx it had and with |vy / vx| in [0.1, 0.5].
C15_ServeOppositeSide ==
    [][ (TickStep /\ Len(tick'.score_events) > 0)
        => LET moved == apply_velocity(ball)
           IN  /\ tick'.reset
               /\ ball'.y = 0
               /\ ball'.x = (IF moved.x > 0 THEN U(LEFT_WALL + 40)
                                            ELSE U(RIGHT_WALL - 40))
               /\ ball'.vel.sx = tick'.vel_after_pass.sx
               /\ ball'.vel.sx # 0 /\ ball'.vel.sy # 0
               /\ 100 * ball'.vel.qy >= ball'.vel.qx
               /\ 4 * ball'.vel.qy <= ball'.vel.qx ]_vars

\* a ball that left on the left, served from the right spot to the left and up
C15_Witness ==
    /\ tick.reset
    /\ "WallLeft" \in tick.hits
    /\ ball.x = U(RIGHT_WALL - 40) /\ ball.y = 0
    /\ ball.vel.sx = -1 /\ ball.vel.sy = 1

\* the step that enters Playing from GameOver
RestartStep == state = "GameOver" /\ state' = "Playing"

\* C16: a tick changes each score component by 0 or by +1; no other step
\* changes the score, except the restart, which sets it to (0, 0).
C16_ScoreNonDecreasing ==
    [][ /\ TickStep => \A i \in {1, 2} : score'[i] \in {score[i], score[i] + 1}
        /\ RestartStep => score' = <<0, 0>>
        /\ (~TickStep /\ ~RestartStep) => score' = score ]_vars

\* a match in which both players have scored, just after a goal
C16_Witness ==
    /\ state = "Playing"
    /\ score[1] >= 1 /\ score[2] >= 1
    /\ tick.score_after = score
    /\ tick.score_before # score

\* C17: in GameOver the winner is Left or Right and is the side whose score
\* has reached TARGET_SCORE, and the victory text is that side's message;
\* the text "GAME OVER!" is never shown.
C17_WinnerSetInGameOver ==
    /\ victory_text # "GAME OVER!"
    /\ state = "GameOver"
       => /\ winner \in {"Left", "Right"}
          /\ winner = "Left"
             => (score[1] >= TARGET_SCORE /\ victory_text = "PLAYER 1 WIN!")
          /\ winner = "Right"
             => (score[2] >= TARGET_SCORE /\ victory_text = "PLAYER 2 WIN!")

\* GameOver of a match player 2 has won, player 1 having scored too
C17_Witness ==
    /\ state = "GameOver"
    /\ winner = "Right"
    /\ score[2] = TARGET_SCORE
    /\ score[1] >= 1
    /\ victory_text = "PLAYER 2 WIN!"

\* C18: the collision pass of a tick writes at most one CollisionEvent and
\* at most one ScoreEvent.
C18_OneNotificationPerTick ==
    /\ tick.collision_events <= 1
    /\ Len(tick.score_events) <= 1

\* C19: every consumer drains the events in the tick in which they are
\* written: no reader has an unread event after a tick, the score sound is
\* played only in a tick that wrote a ScoreEvent, and the ball is reset only
\* in such a tick.
C19_DrainedInTheSameTick ==
    /\ collision_reader = 0
    /\ reset_reader = 0
    /\ tick.reset => Len(tick.score_events) > 0
    /\ tick.score_sounds > 0 => Len(tick.score_events) > 0

\* C20: no score component exceeds TARGET_SCORE and at most one of them
\* equals it.
C20_ScoreStopsAtTarget ==
    /\ score[1] <= TARGET_SCORE
    /\ score[2] <= TARGET_SCORE
    /\ ~(score[1] = TARGET_SCORE /\ score[2] = TARGET_SCORE)

\* the simulation systems have run once more in the frame of the goal that
\* ended the match, GameOver still pending
C20_Witness ==
    /\ state = "Playing"
    /\ next_state = "GameOver"
    /\ score[2] = TARGET_SCORE
    /\ tick.score_before = score
    /\ ~tick.reset

\* C21: at the end of every tick the centre of the ball is within one ball
\* radius of the rectangle of the four walls (taken at their outer faces):
\* the ball never lies wholly beyond a wall.
C21_BallStaysInArena ==
    /\ Abs(ball.x) <= U(RIGHT_WALL) + HalfU(WALL_THICKNESS) + HalfU(BALL_SIZE)
    /\ Abs(ball.y) <= U(TOP_WALL) + HalfU(VERTICAL_WALL_THICKNESS) + HalfU(BALL_SIZE)

====
